---- MODULE Spec2Model ----
(***************************************************************************)
(* Model of the Tasks.md Tauri backend (src-tauri/src/main.rs): the tasks  *)
(* tree under tasks_dir, the two JSON map files tags.json and sort.json    *)
(* under config_dir, the image store under config_dir/images, and the poll *)
(* loops of start_file_watcher.                                            *)
(*                                                                         *)
(* Strings that the code inspects character by character (logical paths,   *)
(* file names) are sequences of one-character strings.  A location in the  *)
(* tasks tree is the sequence of its path segments below tasks_dir, so     *)
(* << >> is tasks_dir itself.  File system calls follow POSIX semantics.   *)
(***************************************************************************)
EXTENDS Integers, Sequences, FiniteSets, TLC

VARIABLES
    fs,        \* the tree below tasks_dir: location -> directory or file
    tagsFile,  \* config_dir/tags.json
    sortFile,  \* config_dir/sort.json
    images,    \* config_dir/images: stored name -> bytes
    calls,     \* the invocations of the map updates that are running
    log,       \* the map updates that have returned, in the order of return
    issued,    \* the number of resource commands that have returned
    last,      \* the last command that has returned, with its result
    watching,  \* WatchState.watching
    loops,     \* the poll loops start_file_watcher has spawned, in order
    modified,  \* direct child of tasks_dir -> its modification time
    moving     \* the update_resource invocation that runs step by step

vars == <<fs, tagsFile, sortFile, images, calls, log, issued, last,
          watching, loops, modified, moving>>

(***************************************************************************)
(* Bounds                                                                  *)
(***************************************************************************)
\* number of command invocations of a JSON map update that can be in flight
NumCalls == 2
\* number of invocations of a JSON map update in one run
MaxUpdates == 2
\* number of resource commands in one run
MaxCommands == 3
\* number of distinct JSON numbers offered as update values
NumVals == 1
\* number of images that are uploaded
MaxImages == 2

(***************************************************************************)
(* Character strings                                                       *)
(***************************************************************************)
\* the characters update_resource replaces (main.rs:154)
IllegalChars == {"<", ">", ":", "\"", "/", "\\", "|", "?", "*"}

\* the logical paths the commands are called with
P_a == <<"a">>
P_ab == <<"a", "/", "b">>
P_abc == <<"a", "/", "b", "/", "c", ".", "m", "d">>
P_abcq == <<"a", "/", "b", "/", "c", "?", ".", "m", "d">>
P_ade == <<"a", "/", "d", "/", "e", ".", "m", "d">>

LogicalPaths == {P_a, P_ab, P_abc, P_abcq, P_ade}

\* card contents
Contents == {"hello"}

\* Option<T>: None or Some(x)
None == [some |-> FALSE, v |-> ""]
Some(x) == [some |-> TRUE, v |-> x]

\* str::starts_with(char)
StartsWith(s, c) == Len(s) >= 1 /\ s[1] = c

\* str::ends_with(".md")
EndsWithMd(s) ==
    /\ Len(s) >= 3
    /\ SubSeq(s, Len(s) - 2, Len(s)) = <<".", "m", "d">>

\* str::strip_suffix(".md").unwrap_or(s)
StripMd(s) == IF EndsWithMd(s) THEN SubSeq(s, 1, Len(s) - 3) ELSE s

\* the segments of a '/'-separated path as the operating system resolves
\* it: empty segments are skipped
RECURSIVE SplitFrom(_, _, _)
SplitFrom(s, i, cur) ==
    IF i > Len(s)
    THEN IF cur = << >> THEN << >> ELSE <<cur>>
    ELSE IF s[i] = "/"
         THEN (IF cur = << >> THEN << >> ELSE <<cur>>) \o SplitFrom(s, i + 1, << >>)
         ELSE SplitFrom(s, i + 1, Append(cur, s[i]))

\* format!("{}/{}", tasks_dir, path) as a location below tasks_dir
FullPath(path) == SplitFrom(path, 1, << >>)

(***************************************************************************)
(* The file system below tasks_dir: a function from the locations that     *)
(* exist to their nodes.                                                   *)
(***************************************************************************)
Dir == [kind |-> "dir", content |-> ""]
File(c) == [kind |-> "file", content |-> c]

Exists(f, p) == p \in DOMAIN f
IsDir(f, p) == Exists(f, p) /\ f[p].kind = "dir"
IsFile(f, p) == Exists(f, p) /\ f[p].kind = "file"

Parent(p) == SubSeq(p, 1, Len(p) - 1)
Prefixes(p) == {SubSeq(p, 1, n) : n \in 0..Len(p)}
IsPrefix(p, q) == Len(p) <= Len(q) /\ SubSeq(q, 1, Len(p)) = p
Under(f, p) == {q \in DOMAIN f : IsPrefix(p, q)}
Children(f, p) == {q \in DOMAIN f : Len(q) = Len(p) + 1 /\ IsPrefix(p, q)}
FileName(p) == p[Len(p)]

Ok(f) == [ok |-> TRUE, fs |-> f]
Err(f) == [ok |-> FALSE, fs |-> f]

\* std::fs::create_dir_all
CreateDirAll(f, p) ==
    IF \E q \in Prefixes(p) : IsFile(f, q)
    THEN Err(f)
    ELSE Ok([q \in DOMAIN f \cup Prefixes(p) |-> IF q \in DOMAIN f THEN f[q] ELSE Dir])

\* std::fs::write
FsWrite(f, p, c) ==
    IF p # << >> /\ IsDir(f, Parent(p)) /\ ~IsDir(f, p)
    THEN Ok([q \in DOMAIN f \cup {p} |-> IF q = p THEN File(c) ELSE f[q]])
    ELSE Err(f)

\* the location of q after the subtree at old has been moved to new
Moved(old, new, q) == new \o SubSeq(q, Len(old) + 1, Len(q))

\* std::fs::rename (rename(2))
FsRename(f, old, new) ==
    IF \/ ~Exists(f, old)
       \/ old = << >>
       \/ new = << >>
       \/ ~IsDir(f, Parent(new))
       \/ (old # new /\ IsPrefix(old, new))
       \/ (IsFile(f, old) /\ IsDir(f, new))
       \/ (IsDir(f, old) /\ IsFile(f, new))
       \/ (IsDir(f, old) /\ IsDir(f, new) /\ old # new /\ Children(f, new) # {})
    THEN Err(f)
    ELSE IF old = new
    THEN Ok(f)
    ELSE LET kept == (DOMAIN f \ Under(f, old)) \ {new}
             moved == {Moved(old, new, q) : q \in Under(f, old)}
         IN Ok([q \in kept \cup moved |->
                   IF q \in moved
                   THEN f[old \o SubSeq(q, Len(new) + 1, Len(q))]
                   ELSE f[q]])

\* std::fs::remove_dir_all
FsRemoveDirAll(f, p) ==
    IF IsDir(f, p)
    THEN Ok([q \in DOMAIN f \ Under(f, p) |-> f[q]])
    ELSE Err(f)

\* std::fs::remove_file
FsRemoveFile(f, p) ==
    IF IsFile(f, p)
    THEN Ok([q \in DOMAIN f \ {p} |-> f[q]])
    ELSE Err(f)

(***************************************************************************)
(* serde_json values, their text and the parser.  A text is a sequence of  *)
(* tokens.  Values are numbers, the empty array and objects.               *)
(***************************************************************************)
EmptyMap == [k \in {} |-> 0]
JNum(n) == [t |-> "num", n |-> n, m |-> EmptyMap]
JArr == [t |-> "arr", n |-> 0, m |-> EmptyMap]
JObj(m) == [t |-> "obj", n |-> 0, m |-> m]

\* Value::Object(Map::new())
EmptyObject == JObj(EmptyMap)

\* an insert that drops the other keys
Insert_alone(m, key, value) == [k \in {key} |-> value]

\* obj.insert(key, value)
Insert(m, key, value) ==
    [k \in DOMAIN m \cup {key} |-> IF k = key THEN value ELSE m[k]]

Punct(c) == [k |-> "punct", s |-> <<c>>, n |-> 0]
StrTok(s) == [k |-> "str", s |-> s, n |-> 0]
NumTok(n) == [k |-> "num", s |-> << >>, n |-> n]

\* the order of characters, as far as the keys in use need it
CharRank(c) ==
    CASE c = " " -> 32 [] c = "." -> 46 [] c = "/" -> 47 [] c = "?" -> 63
      [] c = "a" -> 97 [] c = "b" -> 98 [] c = "c" -> 99 [] c = "d" -> 100
      [] c = "e" -> 101 [] c = "m" -> 109 [] c = "z" -> 122 [] OTHER -> 127

\* s < t for strings, the order of the keys of serde_json's Map
RECURSIVE StrLess(_, _)
StrLess(s, t) ==
    IF s = << >> THEN t # << >>
    ELSE IF t = << >> THEN FALSE
    ELSE IF s[1] = t[1] THEN StrLess(Tail(s), Tail(t))
    ELSE CharRank(s[1]) < CharRank(t[1])

MinKey(ks) == CHOOSE k \in ks : \A j \in ks \ {k} : StrLess(k, j)

\* serde_json::to_string
RECURSIVE to_string(_)
RECURSIVE MembersText(_, _)
MembersText(m, ks) ==
    IF ks = {} THEN << >>
    ELSE LET k == MinKey(ks)
         IN <<StrTok(k), Punct(":")>> \o to_string(m[k])
              \o (IF ks = {k} THEN << >> ELSE <<Punct(",")>> \o MembersText(m, ks \ {k}))

to_string(v) ==
    CASE v.t = "num" -> <<NumTok(v.n)>>
      [] v.t = "arr" -> <<Punct("["), Punct("]")>>
      [] OTHER -> <<Punct("{")>> \o MembersText(v.m, DOMAIN v.m) \o <<Punct("}")>>

ParseFail == [ok |-> FALSE, v |-> EmptyObject, next |-> 0]
Parsed(v, next) == [ok |-> TRUE, v |-> v, next |-> next]
TokAt(text, i) == IF i <= Len(text) THEN text[i] ELSE Punct("eof")

\* the parser of one value starting at token i
RECURSIVE ParseValue(_, _)
RECURSIVE ParseMembers(_, _, _)
RECURSIVE AfterMember(_, _, _, _)

\* the rest of an object after the member with key text[i] and value r
AfterMember(text, i, m, r) ==
    IF ~r.ok THEN ParseFail
    ELSE IF TokAt(text, r.next) = Punct(",")
    THEN ParseMembers(text, r.next + 1, Insert(m, text[i].s, r.v))
    ELSE IF TokAt(text, r.next) = Punct("}")
    THEN Parsed(JObj(Insert(m, text[i].s, r.v)), r.next + 1)
    ELSE ParseFail

\* the members of an object from token i on, m being those before
ParseMembers(text, i, m) ==
    IF TokAt(text, i).k # "str" \/ TokAt(text, i + 1) # Punct(":")
    THEN ParseFail
    ELSE AfterMember(text, i, m, ParseValue(text, i + 2))

ParseValue(text, i) ==
    CASE TokAt(text, i).k = "num" -> Parsed(JNum(text[i].n), i + 1)
      [] TokAt(text, i) = Punct("[") ->
           IF TokAt(text, i + 1) = Punct("]") THEN Parsed(JArr, i + 2) ELSE ParseFail
      [] TokAt(text, i) = Punct("{") ->
           IF TokAt(text, i + 1) = Punct("}")
           THEN Parsed(EmptyObject, i + 2)
           ELSE ParseMembers(text, i + 1, EmptyMap)
      [] OTHER -> ParseFail

\* one value and nothing after it
WholeText(text, r) == IF r.ok /\ r.next = Len(text) + 1 THEN r ELSE ParseFail

\* serde_json::from_str::<Value>
from_str(text) == WholeText(text, ParseValue(text, 1))

(***************************************************************************)
(* The JSON map files config_dir/tags.json and config_dir/sort.json        *)
(***************************************************************************)
Absent == [kind |-> "absent", text |-> << >>]
Unreadable == [kind |-> "unreadable", text |-> << >>]
Text(text) == [kind |-> "text", text |-> text]

\* the keys and values the map commands are called with
MapKeys == {P_a, P_ab}
NestedObject == JObj(Insert(EmptyMap, P_a, JNum(1)))
JVals == {JNum(i) : i \in 1..NumVals} \cup {NestedObject}

Stores == {"tags", "sort"}
StoreFile(store) == IF store = "tags" THEN tagsFile ELSE sortFile

\* fs::read_to_string(..).map(|c| from_str(c).unwrap_or({})).unwrap_or({})
UnwrapOrEmpty(r) == IF r.ok THEN r.v ELSE EmptyObject

LoadOrDefault(file) ==
    IF file.kind = "text" THEN UnwrapOrEmpty(from_str(file.text)) ELSE EmptyObject

Returns(value) == [ok |-> TRUE, value |-> value]

\* a lookup that reports a value that is no object as an error
Lookup_strict(loaded, path) ==
    IF loaded.t = "obj"
    THEN Returns(IF path \in DOMAIN loaded.m THEN loaded.m[path] ELSE EmptyObject)
    ELSE [ok |-> FALSE, value |-> EmptyObject]

\* the lookup of get_tags and get_sort in the loaded value
Lookup(loaded, path) ==
    IF loaded.t = "obj"
    THEN Returns(IF path \in DOMAIN loaded.m THEN loaded.m[path] ELSE EmptyObject)
    ELSE Returns(EmptyObject)

\* the commands as operators of the content of the file they read
get_tags(tags, path) == Lookup(LoadOrDefault(tags), path)

get_sort(sort, path) == Lookup(LoadOrDefault(sort), path)

\* the get command of a store, tags and sort being the two files
GetIn(tags, sort, store, path) ==
    IF store = "tags" THEN get_tags(tags, path) ELSE get_sort(sort, path)

Get(store, path) == GetIn(tagsFile, sortFile, store, path)

\* an insert into a copy of the object: the value that is written back is
\* the one that was read
InsertIfObject_copy(current, path, value) == current

\* if let Value::Object(ref mut obj) = current { obj.insert(path, value) }
InsertIfObject(current, path, value) ==
    IF current.t = "obj" THEN JObj(Insert(current.m, path, value)) ELSE current

\* an invocation of an update command: its arguments, the value it has read
\* and the number of updates that had returned when it read
Idle == [pc |-> "idle", store |-> "tags", path |-> << >>, val |-> EmptyObject,
         cur |-> EmptyObject, seen |-> 0]

InFlight == {c \in DOMAIN calls : calls[c].pc # "idle"}

\* get_tags / get_sort as a command
GetMap(store, path) ==
    /\ last' = [op |-> IF store = "tags" THEN "get_tags" ELSE "get_sort",
                path |-> path, ok |-> Get(store, path).ok,
                value |-> Get(store, path).value]
    /\ UNCHANGED <<fs, tagsFile, sortFile, images, calls, log, issued>>
    /\ UNCHANGED <<watching, loops, modified, moving>>

\* update_tag_background_color / update_sort up to the read of the file
UpdateRead(c, store, path, value) ==
    /\ calls[c].pc = "idle"
    /\ Len(log) + Cardinality(InFlight) < MaxUpdates
    /\ calls' = [calls EXCEPT ![c] =
                    [pc |-> "read", store |-> store, path |-> path, val |-> value,
                     cur |-> LoadOrDefault(StoreFile(store)), seen |-> Len(log)]]
    /\ UNCHANGED <<fs, tagsFile, sortFile, images, log, issued, last>>
    /\ UNCHANGED <<watching, loops, modified, moving>>

\* an update that reads the file again when it writes
UpdateWrite_atomic(c) ==
    /\ calls[c].pc = "read"
    /\ LET written == Text(to_string(InsertIfObject(LoadOrDefault(StoreFile(calls[c].store)),
                                                    calls[c].path, calls[c].val)))
       IN /\ tagsFile' = IF calls[c].store = "tags" THEN written ELSE tagsFile
          /\ sortFile' = IF calls[c].store = "sort" THEN written ELSE sortFile
    /\ calls' = [calls EXCEPT ![c] = Idle]
    /\ log' = Append(log, [call |-> c, store |-> calls[c].store, path |-> calls[c].path,
                           value |-> calls[c].val, seen |-> calls[c].seen])
    /\ UNCHANGED <<fs, images, issued, last>>
    /\ UNCHANGED <<watching, loops, modified, moving>>

\* ... and from the insert to the write of the file and the return
UpdateWrite(c) ==
    /\ calls[c].pc = "read"
    /\ LET written == Text(to_string(InsertIfObject(calls[c].cur, calls[c].path, calls[c].val)))
       IN /\ tagsFile' = IF calls[c].store = "tags" THEN written ELSE tagsFile
          /\ sortFile' = IF calls[c].store = "sort" THEN written ELSE sortFile
    /\ calls' = [calls EXCEPT ![c] = Idle]
    /\ log' = Append(log, [call |-> c, store |-> calls[c].store, path |-> calls[c].path,
                           value |-> calls[c].val, seen |-> calls[c].seen])
    /\ UNCHANGED <<fs, images, issued, last>>
    /\ UNCHANGED <<watching, loops, modified, moving>>

(***************************************************************************)
(* The resource commands on the tasks tree.  A command is an operator from *)
(* the tree and the arguments to the result and the tree it leaves.        *)
(***************************************************************************)
NoneBool == [some |-> FALSE, v |-> FALSE]
SomeBool(b) == [some |-> TRUE, v |-> b]
NonePath == [some |-> FALSE, v |-> << >>]
SomePath(p) == [some |-> TRUE, v |-> p]

\* Option::unwrap_or
UnwrapOr(opt, default) == IF opt.some THEN opt.v ELSE default

Result(ok, f, value) == [ok |-> ok, fs |-> f, value |-> value]

\* the cards of get_lane_files; reading a directory as a card fails
LaneCards(f, lane) ==
    {q \in Children(f, lane) :
        EndsWithMd(FileName(q)) /\ ~StartsWith(FileName(q), ".")}

\* an enumeration that reads regular files only
get_lane_files_files(f, lane) ==
    Result(TRUE, f, {[name |-> StripMd(FileName(q)), content |-> f[q].content] :
                        q \in {x \in LaneCards(f, lane) : IsFile(f, x)}})

get_lane_files(f, lane) ==
    IF \E q \in LaneCards(f, lane) : ~IsFile(f, q)
    THEN Result(FALSE, f, {})
    ELSE Result(TRUE, f, {[name |-> StripMd(FileName(q)), content |-> f[q].content] :
                            q \in LaneCards(f, lane)})

\* lanes without the filter of the names that start with '.'
Lanes_all(f, board) == {q \in Children(f, board) : IsDir(f, q)}

\* the directories get_resource lists as lanes
Lanes(f, board) ==
    {q \in Children(f, board) : IsDir(f, q) /\ ~StartsWith(FileName(q), ".")}

\* get_resource without the creation of a missing directory
get_resource_nocreate(f, path) ==
    LET full == FullPath(path)
    IN IF ~Exists(f, full)
       THEN Result(TRUE, f, {})
       ELSE IF ~IsDir(f, full)
       THEN Result(FALSE, f, {})
       ELSE IF \E lane \in Lanes(f, full) : ~get_lane_files(f, lane).ok
       THEN Result(FALSE, f, {})
       ELSE Result(TRUE, f, {[name |-> FileName(lane),
                              files |-> get_lane_files(f, lane).value] :
                                lane \in Lanes(f, full)})

\* the list a command returns is kept as the set of its elements: the order
\* is the order of read_dir, which is not specified
get_resource(f, path) ==
    LET full == FullPath(path)
    IN IF ~Exists(f, full)
       THEN (IF CreateDirAll(f, full).ok
             THEN Result(TRUE, CreateDirAll(f, full).fs, {})
             ELSE Result(FALSE, f, {}))
       ELSE IF ~IsDir(f, full)
       THEN Result(FALSE, f, {})
       ELSE IF \E lane \in Lanes(f, full) : ~get_lane_files(f, lane).ok
       THEN Result(FALSE, f, {})
       ELSE Result(TRUE, f, {[name |-> FileName(lane),
                              files |-> get_lane_files(f, lane).value] :
                                lane \in Lanes(f, full)})

create_resource(f, path, is_file, content) ==
    LET full == FullPath(path)
    IN IF UnwrapOr(is_file, FALSE)
       THEN LET made == IF full = << >> THEN Ok(f) ELSE CreateDirAll(f, Parent(full))
            IN IF ~made.ok
               THEN Result(FALSE, made.fs, {})
               ELSE Result(FsWrite(made.fs, full, UnwrapOr(content, "")).ok,
                           FsWrite(made.fs, full, UnwrapOr(content, "")).fs, {})
       ELSE Result(CreateDirAll(f, full).ok, CreateDirAll(f, full).fs, {})

\* new_path.unwrap_or(path) with every character of "<>:\"/\\|?*" replaced
Sanitize(s) == [i \in 1..Len(s) |-> IF s[i] \in IllegalChars THEN " " ELSE s[i]]

\* the content part of update_resource, on the tree after the move
WriteContent(f, new, content) ==
    IF ~content.some
    THEN Result(TRUE, f, {})
    ELSE IF ~Exists(f, new)
    THEN Result(FALSE, f, {})
    ELSE IF IsFile(f, new)
    THEN Result(FsWrite(f, new, content.v).ok, FsWrite(f, new, content.v).fs, {})
    ELSE Result(TRUE, f, {})

update_resource(f, path, new_path, content) ==
    LET old == FullPath(path)
        new_path_clean == Sanitize(UnwrapOr(new_path, path))
        new == FullPath(new_path_clean)
    IN IF path # new_path_clean
       THEN LET made == IF new = << >> THEN Ok(f) ELSE CreateDirAll(f, Parent(new))
                moved == FsRename(made.fs, old, new)
            IN IF ~made.ok
               THEN Result(FALSE, made.fs, {})
               ELSE IF ~moved.ok
               THEN Result(FALSE, moved.fs, {})
               ELSE WriteContent(moved.fs, new, content)
       ELSE WriteContent(f, new, content)

delete_resource(f, path) ==
    LET full == FullPath(path)
    IN IF IsDir(f, full)
       THEN Result(FsRemoveDirAll(f, full).ok, FsRemoveDirAll(f, full).fs, {})
       ELSE Result(FsRemoveFile(f, full).ok, FsRemoveFile(f, full).fs, {})

OptContents == {None} \cup {Some(c) : c \in Contents}
OptBools == {NoneBool, SomeBool(TRUE), SomeBool(FALSE)}
\* the targets update_resource is called with
OptPaths == {NonePath, SomePath(P_abcq), SomePath(P_ade)}

Bump ==
    /\ issued < MaxCommands
    /\ issued' = issued + 1
    /\ UNCHANGED <<tagsFile, sortFile, images, calls, log>>
    /\ UNCHANGED <<watching, loops, modified, moving>>

GetResource(path) ==
    LET r == get_resource(fs, path)
    IN /\ fs' = r.fs
       /\ last' = [op |-> "get_resource", path |-> path, ok |-> r.ok, value |-> r.value]
       /\ Bump

CreateResource(path, is_file, content) ==
    LET r == create_resource(fs, path, is_file, content)
    IN /\ fs' = r.fs
       /\ last' = [op |-> "create_resource", path |-> path, is_file |-> is_file,
                   content |-> content, ok |-> r.ok]
       /\ Bump

UpdateResource(path, new_path, content) ==
    LET r == update_resource(fs, path, new_path, content)
    IN /\ fs' = r.fs
       /\ last' = [op |-> "update_resource", path |-> path, new_path |-> new_path,
                   content |-> content, ok |-> r.ok]
       /\ Bump

\* a deletion that also removes tags.json
DeleteResource_purge(path) ==
    LET r == delete_resource(fs, path)
    IN /\ fs' = r.fs
       /\ last' = [op |-> "delete_resource", path |-> path, ok |-> r.ok]
       /\ issued < MaxCommands
       /\ issued' = issued + 1
       /\ tagsFile' = Absent
       /\ UNCHANGED <<sortFile, images, calls, log, watching, loops, modified, moving>>

DeleteResource(path) ==
    LET r == delete_resource(fs, path)
    IN /\ fs' = r.fs
       /\ last' = [op |-> "delete_resource", path |-> path, ok |-> r.ok]
       /\ Bump

(***************************************************************************)
(* The image store config_dir/images                                       *)
(***************************************************************************)
\* the part of s after its last '.', all of s when it has none: the last
\* item of filename.split('.')
RECURSIVE LastOfSplit(_, _)
LastOfSplit(s, cur) ==
    IF s = << >> THEN cur
    ELSE IF s[1] = "." THEN LastOfSplit(Tail(s), << >>)
    ELSE LastOfSplit(Tail(s), Append(cur, s[1]))

\* filename.split('.').last().unwrap_or("png"): split yields at least one item
Extension(filename) == LastOfSplit(filename, << >>)

\* format!("{}.{}", uuid, extension)
ImageName(id, extension) == [id |-> id, ext |-> extension]

F_png == <<"p", ".", "p", "n", "g">>
F_two == <<"p", ".", "t", ".", "j">>
F_none == <<"p">>
Filenames == {F_png, F_two, F_none}
ByteStrings == {<<1>>, <<2, 3>>}

\* Uuid::new_v4() is an identifier that no stored image has: the number of
\* the upload
upload_image(imgs, file_data, filename) ==
    LET image_name == ImageName(Cardinality(DOMAIN imgs) + 1, Extension(filename))
    IN [ok |-> TRUE, value |-> image_name,
        images |-> [n \in DOMAIN imgs \cup {image_name} |->
                       IF n = image_name THEN file_data ELSE imgs[n]]]

\* fs::read of the image
get_image(imgs, filename) ==
    IF filename \in DOMAIN imgs
    THEN [ok |-> TRUE, value |-> imgs[filename]]
    ELSE [ok |-> FALSE, value |-> << >>]

UploadImage(file_data, filename) ==
    LET r == upload_image(images, file_data, filename)
    IN /\ Cardinality(DOMAIN images) < MaxImages
       /\ images' = r.images
       /\ last' = [op |-> "upload_image", file_data |-> file_data, filename |-> filename,
                   ok |-> r.ok, value |-> r.value]
       /\ UNCHANGED <<fs, tagsFile, sortFile, calls, log, issued>>
       /\ UNCHANGED <<watching, loops, modified, moving>>

\* the names get_image is called with: the stored ones and one that is not
AskedNames == DOMAIN images \cup {ImageName(0, <<"p", "n", "g">>)}

GetImage(filename) ==
    LET r == get_image(images, filename)
    IN /\ last' = [op |-> "get_image", filename |-> filename, ok |-> r.ok, value |-> r.value]
       /\ UNCHANGED <<fs, tagsFile, sortFile, images, calls, log, issued>>
       /\ UNCHANGED <<watching, loops, modified, moving>>

(***************************************************************************)
(* update_resource, one file system call at a time                         *)
(***************************************************************************)
\* the contents update_resource is called with when it runs step by step
NewContents == {None, Some("bye")}

\* no update_resource is running step by step
NotMoving == [pc |-> "idle"]

\* new_path_clean, old_full_path and new_full_path of the invocation
NewPathClean == Sanitize(UnwrapOr(moving.new_path, moving.path))
OldFull == FullPath(moving.path)
NewFull == FullPath(NewPathClean)

\* the invocation goes on to the step at pc
MoveOn(pc) ==
    /\ moving' = [moving EXCEPT !.pc = pc]
    /\ UNCHANGED last

\* the invocation returns
MoveReturn(ok) ==
    /\ moving' = [moving EXCEPT !.pc = "returned"]
    /\ last' = [op |-> "update_resource", path |-> moving.path,
                new_path |-> moving.new_path, content |-> moving.content, ok |-> ok]

\* what no step of update_resource changes
MoveFrame ==
    UNCHANGED <<tagsFile, sortFile, images, calls, log, issued, watching, loops, modified>>

\* the invocation, up to the comparison of the two full paths
MoveCall(path, new_path, content) ==
    /\ moving.pc = "idle"
    /\ moving' = [pc |-> "called", path |-> path, new_path |-> new_path,
                  content |-> content, before |-> fs]
    /\ UNCHANGED <<fs, last>>
    /\ MoveFrame

\* fs::create_dir_all(parent) when the two full paths differ
MoveCreateDirs ==
    /\ moving.pc = "called"
    /\ IF moving.path = NewPathClean
       THEN UNCHANGED fs /\ MoveOn("moved")
       ELSE LET made == IF NewFull = << >> THEN Ok(fs) ELSE CreateDirAll(fs, Parent(NewFull))
            IN /\ fs' = made.fs
               /\ IF made.ok THEN MoveOn("made") ELSE MoveReturn(FALSE)
    /\ MoveFrame

\* fs::rename(old_full_path, new_full_path)
MoveRename ==
    /\ moving.pc = "made"
    /\ LET moved == FsRename(fs, OldFull, NewFull)
       IN /\ fs' = moved.fs
          /\ IF moved.ok THEN MoveOn("moved") ELSE MoveReturn(FALSE)
    /\ MoveFrame

\* fs::metadata(new_full_path) when content is given
MoveStat ==
    /\ moving.pc = "moved"
    /\ UNCHANGED fs
    /\ IF ~moving.content.some
       THEN MoveReturn(TRUE)
       ELSE IF ~Exists(fs, NewFull)
       THEN MoveReturn(FALSE)
       ELSE IF IsFile(fs, NewFull)
       THEN MoveOn("stat")
       ELSE MoveReturn(TRUE)
    /\ MoveFrame

\* fs::write(new_full_path, new_content)
MoveWrite ==
    /\ moving.pc = "stat"
    /\ LET written == FsWrite(fs, NewFull, moving.content.v)
       IN /\ fs' = written.fs
          /\ MoveReturn(written.ok)
    /\ MoveFrame

(***************************************************************************)
(* The change watcher (start_file_watcher)                                 *)
(***************************************************************************)
\* the names of the direct children of tasks_dir that come and go
Boards == {<<"a">>, <<"d">>}
\* number of distinct modification times
NumTimes == 2
Times == 1..NumTimes
\* number of calls of start_file_watcher in one run
MaxLoops == 2

\* fs::read_dir(&tasks_dir) of a directory without entries, and the new
\* HashMap of a loop
NoChildren == [c \in {} |-> 0]

\* the state of a poll loop: its own last_modified map, the children the
\* latest iteration has emitted "files-changed" for, and the number of
\* iterations modulo 2
NewLoop == [last_modified |-> NoChildren, emitted |-> {}, ticks |-> 0]

\* an iteration that also notifies of a child it sees for the first time
Emits_first(last_modified, mods) ==
    {c \in DOMAIN mods : c \notin DOMAIN last_modified \/ last_modified[c] # mods[c]}

\* the entries an iteration emits "files-changed" for: the map has the path
\* and the modification time is not the recorded one
Emits(last_modified, mods) ==
    {c \in DOMAIN mods : c \in DOMAIN last_modified /\ last_modified[c] # mods[c]}

\* last_modified.insert(path, modified) for every entry that was read;
\* nothing is ever removed from the map
Record(last_modified, mods) ==
    [c \in DOMAIN last_modified \cup DOMAIN mods |->
        IF c \in DOMAIN mods THEN mods[c] ELSE last_modified[c]]

\* a command that refuses to start a watcher when one is running
StartFileWatcher_guarded ==
    /\ Len(loops) < MaxLoops
    /\ watching' = TRUE
    /\ loops' = IF watching THEN loops ELSE Append(loops, NewLoop)
    /\ last' = [op |-> "start_file_watcher", ok |-> ~watching]
    /\ UNCHANGED <<fs, tagsFile, sortFile, images, calls, log, issued, modified, moving>>

\* start_file_watcher: sets the flag and spawns a loop, whatever the flag was
StartFileWatcher ==
    /\ Len(loops) < MaxLoops
    /\ watching' = TRUE
    /\ loops' = Append(loops, NewLoop)
    /\ last' = [op |-> "start_file_watcher", ok |-> TRUE]
    /\ UNCHANGED <<fs, tagsFile, sortFile, images, calls, log, issued, modified, moving>>

\* a loop that ends after its first iteration
Tick_once(k) ==
    /\ k \in 1..Len(loops)
    /\ loops[k].ticks = 0
    /\ loops' = [loops EXCEPT ![k] =
                    [last_modified |-> Record(loops[k].last_modified, modified),
                     emitted |-> Emits(loops[k].last_modified, modified),
                     ticks |-> 1]]
    /\ UNCHANGED <<fs, tagsFile, sortFile, images, calls, log, issued, last,
                   watching, modified, moving>>

\* one iteration of loop k: read the directory, compare and record the
\* modification time of every entry, then sleep
Tick(k) ==
    /\ k \in 1..Len(loops)
    /\ loops' = [loops EXCEPT ![k] =
                    [last_modified |-> Record(loops[k].last_modified, modified),
                     emitted |-> Emits(loops[k].last_modified, modified),
                     ticks |-> (loops[k].ticks + 1) % 2]]
    /\ UNCHANGED <<fs, tagsFile, sortFile, images, calls, log, issued, last,
                   watching, modified, moving>>

\* what happens to the directory the loops read: an entry appears, the
\* modification time of an entry changes, an entry goes away
Appear(c, t) ==
    /\ c \notin DOMAIN modified
    /\ modified' = [x \in DOMAIN modified \cup {c} |-> IF x = c THEN t ELSE modified[x]]
    /\ UNCHANGED <<fs, tagsFile, sortFile, images, calls, log, issued, last,
                   watching, loops, moving>>

Touch(c, t) ==
    /\ c \in DOMAIN modified
    /\ t # modified[c]
    /\ modified' = [modified EXCEPT ![c] = t]
    /\ UNCHANGED <<fs, tagsFile, sortFile, images, calls, log, issued, last,
                   watching, loops, moving>>

Remove(c) ==
    /\ c \in DOMAIN modified
    /\ modified' = [x \in DOMAIN modified \ {c} |-> modified[x]]
    /\ UNCHANGED <<fs, tagsFile, sortFile, images, calls, log, issued, last,
                   watching, loops, moving>>

(***************************************************************************)
(* Initial states                                                          *)
(***************************************************************************)
Started == [op |-> "main"]

\* what a map file can hold when the program starts: nothing, bytes that
\* are not UTF-8, text that is not JSON, JSON that is not an object, and an
\* object with a key of its own
ForeignKey == <<"z">>
DiskFiles ==
    {Absent, Unreadable, Text(<<Punct("{")>>), Text(to_string(JArr)),
     Text(to_string(JObj(Insert(EmptyMap, ForeignKey, JNum(1)))))}

\* nothing on disk yet
Init ==
    /\ fs = [p \in {} |-> Dir]
    /\ tagsFile = Absent
    /\ sortFile = Absent
    /\ images = [n \in {} |-> << >>]
    /\ calls = [c \in 1..NumCalls |-> Idle]
    /\ log = << >>
    /\ issued = 0
    /\ last = Started
    /\ watching = FALSE
    /\ loops = << >>
    /\ modified = NoChildren
    /\ moving = NotMoving

NextMaps ==
    \/ \E store \in Stores, path \in MapKeys : GetMap(store, path)
    \/ \E c \in 1..NumCalls, store \in Stores, path \in MapKeys, value \in JVals :
          UpdateRead(c, store, path, value)
    \/ \E c \in 1..NumCalls : UpdateWrite(c)

SpecMaps == Init /\ [][NextMaps]_vars

\* the map files hold whatever was on disk; no command reads both files, so
\* the two start with the same content
InitDisk ==
    /\ fs = [p \in {} |-> Dir]
    /\ tagsFile \in DiskFiles
    /\ sortFile = tagsFile
    /\ images = [n \in {} |-> << >>]
    /\ calls = [c \in 1..NumCalls |-> Idle]
    /\ log = << >>
    /\ issued = 0
    /\ last = Started
    /\ watching = FALSE
    /\ loops = << >>
    /\ modified = NoChildren
    /\ moving = NotMoving

SpecDisk == InitDisk /\ [][NextMaps]_vars

NextTree ==
    \/ \E path \in LogicalPaths : GetResource(path)
    \/ \E path \in LogicalPaths, is_file \in OptBools, content \in OptContents :
          CreateResource(path, is_file, content)
    \/ \E path \in LogicalPaths, new_path \in OptPaths, content \in OptContents :
          UpdateResource(path, new_path, content)
    \/ \E path \in LogicalPaths : DeleteResource(path)

SpecTree == Init /\ [][NextTree]_vars

NextImages ==
    \/ \E file_data \in ByteStrings, filename \in Filenames : UploadImage(file_data, filename)
    \/ \E filename \in AskedNames : GetImage(filename)

SpecImages == Init /\ [][NextImages]_vars

\* paths with names that a listing leaves out: a hidden lane, a hidden entry
\* with the suffix of a card, an entry without the suffix
P_ah == <<"a", "/", ".", "h">>
P_abx == <<"a", "/", "b", "/", ".", "x", ".", "m", "d">>
P_abt == <<"a", "/", "b", "/", "t">>
ListPaths == {P_ab, P_abc, P_ah, P_abx, P_abt}
ListedPaths == {P_a, P_ab}

NextList ==
    \/ \E path \in ListedPaths : GetResource(path)
    \/ \E path \in ListPaths, is_file \in OptBools, content \in OptContents :
          CreateResource(path, is_file, content)
    \/ \E path \in ListPaths : DeleteResource(path)

SpecList == Init /\ [][NextList]_vars

\* the keys of the map files that are the logical paths of a card before
\* and after a rename
CardKeys == {P_abc, P_abcq}

\* the commands on one card and the updates of the map files for its path
NextAll ==
    \/ \E c \in 1..NumCalls, store \in Stores : UpdateRead(c, store, P_abc, JNum(1))
    \/ \E c \in 1..NumCalls : UpdateWrite(c)
    \/ GetResource(P_a)
    \/ \E content \in OptContents : CreateResource(P_abc, SomeBool(TRUE), content)
    \/ UpdateResource(P_abc, SomePath(P_abcq), None)
    \/ \E path \in CardKeys : DeleteResource(path)

SpecAll == Init /\ [][NextAll]_vars

\* the changes of the watched directory, for the children that come and go
Changes(children) ==
    \/ \E c \in children, t \in Times : Appear(c, t)
    \/ \E c \in children, t \in Times : Touch(c, t)
    \/ \E c \in children : Remove(c)

NextWatch ==
    \/ StartFileWatcher
    \/ \E k \in 1..MaxLoops : Tick(k)
    \/ Changes(Boards)

SpecWatch == Init /\ [][NextWatch]_vars

\* the watcher with one child that comes and goes
NextWatchOne ==
    \/ StartFileWatcher
    \/ \E k \in 1..MaxLoops : Tick(k)
    \/ Changes({<<"a">>})

\* a spawned loop never leaves `loop { .. sleep(1 s) }`: the runtime runs
\* every iteration that is due
SpecWatchFair ==
    Init /\ [][NextWatchOne]_vars /\ \A k \in 1..MaxLoops : WF_vars(Tick(k))

\* trees the commands build: nothing, one card, one card in each of two
\* lanes, a card that has been renamed
NoTree == [p \in {} |-> Dir]
CardTree == create_resource(NoTree, P_abc, SomeBool(TRUE), Some("hello")).fs
TwoCardTree == create_resource(CardTree, P_ade, SomeBool(TRUE), None).fs
RenamedTree == update_resource(CardTree, P_abc, SomePath(P_abcq), None).fs
MoveTrees == {NoTree, CardTree, TwoCardTree, RenamedTree}

\* one update_resource runs on a tree that earlier commands have built
InitMove ==
    /\ fs \in MoveTrees
    /\ tagsFile = Absent
    /\ sortFile = Absent
    /\ images = [n \in {} |-> << >>]
    /\ calls = [c \in 1..NumCalls |-> Idle]
    /\ log = << >>
    /\ issued = 0
    /\ last = Started
    /\ watching = FALSE
    /\ loops = << >>
    /\ modified = NoChildren
    /\ moving = NotMoving

NextMove ==
    \/ \E path \in LogicalPaths, new_path \in OptPaths, content \in NewContents :
          MoveCall(path, new_path, content)
    \/ MoveCreateDirs
    \/ MoveRename
    \/ MoveStat
    \/ MoveWrite

SpecMove == InitMove /\ [][NextMove]_vars

(***************************************************************************)
(* Properties of the JSON map commands                                     *)
(***************************************************************************)
\* invocation c returns in this step
Completes(c) == calls[c].pc = "read" /\ calls'[c].pc = "idle"

\* no update has returned since invocation c read the file
Uninterrupted(c) == calls[c].seen = Len(log)

\* the returned updates of one key of one store
UpdatesOf(store, path) ==
    {i \in 1..Len(log) : log[i].store = store /\ log[i].path = path}

\* C1: an update of P to V that no other update interrupts makes the get of
\* P return exactly V and leaves the get of every other key of that store
\* as it was, for tags.json and for sort.json alike; a step that is not the
\* return of an update changes the result of no get.
C1_UpdateThenGet ==
    [][/\ \A c \in 1..NumCalls, store \in Stores, path \in MapKeys, value \in JVals :
            /\ Completes(c)
            /\ Uninterrupted(c)
            /\ calls[c].store = store
            /\ calls[c].path = path
            /\ calls[c].val = value
            => /\ GetIn(tagsFile', sortFile', store, path) = Returns(value)
               /\ \A q \in MapKeys \ {path} :
                     GetIn(tagsFile', sortFile', store, q) = Get(store, q)
       /\ (\A c \in 1..NumCalls : ~Completes(c)) =>
            \A store \in Stores, q \in MapKeys :
                GetIn(tagsFile', sortFile', store, q) = Get(store, q)]_vars

\* two updates of different keys of one store have returned one after the
\* other, the second one the nested object, and both values are read back
C1_Witness ==
    /\ Len(log) = 2
    /\ log[1].store = log[2].store
    /\ log[1].path # log[2].path
    /\ log[2].seen = 1
    /\ log[2].value = NestedObject
    /\ Get(log[2].store, log[2].path) = Returns(NestedObject)
    /\ Get(log[1].store, log[1].path) = Returns(log[1].value)

\* C2: get_tags and get_sort return Ok whatever the file holds (nothing,
\* unreadable bytes, malformed JSON, JSON that is no object, an object
\* without the key), and they return the empty object for a key that no
\* update has been made for.
C2_GetNeverFails ==
    /\ \A store \in Stores, path \in MapKeys :
          /\ Get(store, path).ok
          /\ UpdatesOf(store, path) = {} => Get(store, path) = Returns(EmptyObject)
    /\ last.op \in {"get_tags", "get_sort"} => last.ok

\* get_tags has returned the empty object from a file that is not JSON
C2_Witness ==
    /\ last.op = "get_tags"
    /\ last.ok
    /\ last.value = EmptyObject
    /\ tagsFile = Text(<<Punct("{")>>)

\* C10: when two update_sort invocations of one path run concurrently (the
\* one that writes last had read the file before the other one wrote), the
\* value get_sort returns for the path after both have returned is the value
\* of the invocation whose write came last.
C10_LastWriterWins ==
    \A n \in 2..Len(log) :
        /\ n = Len(log)
        /\ log[n].store = "sort"
        /\ log[n - 1].store = "sort"
        /\ log[n - 1].path = log[n].path
        /\ log[n].seen < n - 1
        => get_sort(sortFile, log[n].path) = Returns(log[n].value)

\* both invocations read the empty store before either wrote, they wrote
\* different values, and the second value is the one stored
C10_Witness ==
    /\ Len(log) = 2
    /\ log[1].store = "sort" /\ log[2].store = "sort"
    /\ log[1].path = log[2].path
    /\ log[1].seen = 0 /\ log[2].seen = 0
    /\ log[1].value # log[2].value
    /\ get_sort(sortFile, log[2].path) = Returns(log[2].value)

(***************************************************************************)
(* Properties of the resource commands                                     *)
(***************************************************************************)
\* a resource command returns in this step
ResourceStep == issued' = issued + 1

\* the segments of a logical path with the characters of IllegalChars
\* replaced in the last segment only
SanitizeLast(segments) ==
    IF segments = << >> THEN << >>
    ELSE [segments EXCEPT ![Len(segments)] = Sanitize(segments[Len(segments)])]

\* C3: after update_resource(old, new, _) has returned Ok the entry is at the
\* path got from new by replacing the illegal characters of its last segment
\* only, every '/' between segments kept, and nothing is left at old.
C3_RenameKeepsSeparators ==
    (last.op = "update_resource" /\ last.new_path.some /\ last.ok) =>
        LET old == FullPath(last.path)
            target == SanitizeLast(FullPath(last.new_path.v))
        IN /\ Exists(fs, target)
           /\ old # target => ~Exists(fs, old)

\* C4: update_resource(P, no new path, content C) on an existing card file P
\* returns Ok, moves nothing, and leaves the tree as it was but for the
\* content of P, which is C.
C4_ContentOnlyUpdate ==
    [][\A path \in LogicalPaths, c \in Contents :
          /\ ResourceStep
          /\ last'.op = "update_resource"
          /\ last'.path = path
          /\ last'.new_path = NonePath
          /\ last'.content = Some(c)
          /\ IsFile(fs, FullPath(path))
          => /\ last'.ok
             /\ fs' = [fs EXCEPT ![FullPath(path)] = File(c)]]_vars

\* board/lane/name.md with no segment that starts with '.'
IsCardPath(path) ==
    /\ Len(FullPath(path)) = 3
    /\ EndsWithMd(FullPath(path)[3])
    /\ \A i \in 1..3 : ~StartsWith(FullPath(path)[i], ".")

\* the lanes of a listing that have the name and hold a card of that name
\* and content
HasCard(value, lane, name, content) ==
    \E l \in value :
        /\ l.name = lane
        /\ \E card \in l.files : card.name = name /\ card.content = content

\* C5: after create_resource("B/L/N.md", is_file = true, content C) has
\* returned Ok, get_resource(B) returns a lane L with a card N of content C.
C5_CreatedCardIsListed ==
    (/\ last.op = "create_resource"
     /\ last.is_file = SomeBool(TRUE)
     /\ last.ok
     /\ IsCardPath(last.path)) =>
        LET full == FullPath(last.path)
            r == get_resource(fs, full[1])
        IN /\ r.ok
           /\ HasCard(r.value, full[2], StripMd(full[3]), UnwrapOr(last.content, ""))

\* C6: get_resource of a path that does not exist (and lies below no regular
\* file) creates the directory with its parents, changes nothing else and
\* returns the empty list without error; a second get_resource of the path
\* returns the empty list without error as well and leaves the directory.
C6_ListCreatesBoard ==
    \A path \in LogicalPaths :
        (/\ ~Exists(fs, FullPath(path))
         /\ \A q \in Prefixes(FullPath(path)) : ~IsFile(fs, q)) =>
            LET first == get_resource(fs, path)
                second == get_resource(first.fs, path)
            IN /\ first.ok /\ first.value = {}
               /\ \A q \in Prefixes(FullPath(path)) : IsDir(first.fs, q)
               /\ \A q \in DOMAIN fs : Exists(first.fs, q) /\ first.fs[q] = fs[q]
               /\ second.ok /\ second.value = {}
               /\ second.fs = first.fs

\* the first command of a run was get_resource("a/b"): it has created
\* tasks_dir, a and a/b and has returned the empty list
C6_Witness ==
    /\ issued = 1
    /\ last.op = "get_resource" /\ last.path = P_ab
    /\ last.ok /\ last.value = {}
    /\ DOMAIN fs = Prefixes(FullPath(P_ab))
    /\ get_resource(fs, P_ab).ok /\ get_resource(fs, P_ab).value = {}

\* the card files of a lane
CardFiles(f, lane) == {q \in LaneCards(f, lane) : IsFile(f, q)}

\* C7: delete_resource of a lane directory that holds cards returns Ok and
\* removes the lane with everything under it; get_resource of the board then
\* returns a list without a lane of that name, and every other entry of the
\* tree is as before.
C7_DeleteLane ==
    [][\A path \in LogicalPaths :
          /\ ResourceStep
          /\ last'.op = "delete_resource"
          /\ last'.path = path
          /\ Len(FullPath(path)) = 2
          /\ IsDir(fs, FullPath(path))
          /\ CardFiles(fs, FullPath(path)) # {}
          => /\ last'.ok
             /\ Under(fs', FullPath(path)) = {}
             /\ DOMAIN fs' = DOMAIN fs \ Under(fs, FullPath(path))
             /\ \A q \in DOMAIN fs' : fs'[q] = fs[q]
             /\ get_resource(fs', FullPath(path)[1]).ok
             /\ \A l \in get_resource(fs', FullPath(path)[1]).value :
                   l.name # FullPath(path)[2]]_vars

\* C8: when update_resource or delete_resource returns an error the tree is
\* the tree before the call.
C8_NoPartialSuccess ==
    [][(/\ ResourceStep
        /\ last'.op \in {"update_resource", "delete_resource"}
        /\ ~last'.ok) => fs' = fs]_vars

(***************************************************************************)
(* Properties of the image store                                           *)
(***************************************************************************)
\* the part of a file name after its last '.', "png" when it has no '.'
ExtensionOrPng(filename) ==
    IF \E i \in 1..Len(filename) : filename[i] = "."
    THEN LastOfSplit(filename, << >>)
    ELSE <<"p", "n", "g">>

\* C9: upload_image(B, F) returns a name <fresh id>.<ext>, ext the part of F
\* after its last '.' and "png" when F has no '.'; get_image of a returned
\* name returns the bytes that were uploaded under it, after later uploads
\* too.
C9_UploadExtension ==
    /\ []((last.op = "upload_image" /\ last.ok) =>
            /\ last.value.ext = ExtensionOrPng(last.filename)
            /\ get_image(images, last.value) = [ok |-> TRUE, value |-> last.file_data])
    /\ [][\A n \in DOMAIN images : get_image(images', n) = get_image(images, n)]_vars

(***************************************************************************)
(* The race of the JSON map updates                                        *)
(***************************************************************************)
\* C11: when an update of key P2 returns that had read the file before the
\* update of another key P1 of the same file wrote (the update that returned
\* last before it), the file holds P2 with its value and, for every other
\* key, what the P2 update had read: the P1 update is lost, and P1 is missing
\* when it was not in the file before, although the P1 update returned Ok.
C11_LostUpdate ==
    [][\A c \in 1..NumCalls, store \in Stores, p2 \in MapKeys, p1 \in MapKeys, v2 \in JVals :
          /\ Completes(c)
          /\ calls[c].store = store /\ calls[c].path = p2 /\ calls[c].val = v2
          /\ Len(log) >= 1
          /\ calls[c].seen < Len(log)
          /\ log[Len(log)].store = store
          /\ log[Len(log)].path = p1
          /\ p1 # p2
          => /\ GetIn(tagsFile', sortFile', store, p2) = Returns(v2)
             /\ GetIn(tagsFile', sortFile', store, p1) = Lookup(calls[c].cur, p1)
             /\ p1 \notin DOMAIN calls[c].cur.m =>
                   GetIn(tagsFile', sortFile', store, p1) = Returns(EmptyObject)]_vars

\* two updates of different keys of one file have both read the empty file
\* and have both returned; the key of the first one is not in the file
C11_Witness ==
    /\ Len(log) = 2
    /\ log[1].store = log[2].store
    /\ log[1].path # log[2].path
    /\ log[1].seen = 0 /\ log[2].seen = 0
    /\ Get(log[2].store, log[2].path) = Returns(log[2].value)
    /\ Get(log[1].store, log[1].path) = Returns(EmptyObject)
    /\ log[1].value # EmptyObject

\* the file of a store holds a JSON object that maps path to value
HoldsEntry(file, path, value) ==
    /\ file.kind = "text"
    /\ from_str(file.text).ok
    /\ from_str(file.text).v.t = "obj"
    /\ path \in DOMAIN from_str(file.text).v.m
    /\ from_str(file.text).v.m[path] = value

\* C12: after an update of P to V has returned Ok, whatever the file held
\* before (nothing, malformed JSON, any JSON), the file holds a JSON object
\* that maps P to V.
C12_UpdateStoresEntry ==
    Len(log) >= 1 =>
        HoldsEntry(StoreFile(log[Len(log)].store), log[Len(log)].path, log[Len(log)].value)

(***************************************************************************)
(* Properties of the change watcher                                        *)
(***************************************************************************)
\* loop k runs an iteration in this step
Ticks(k) ==
    /\ k \in 1..Len(loops)
    /\ Len(loops') = Len(loops)
    /\ loops'[k].ticks # loops[k].ticks

\* loop k has recorded a modification time of child c that is not t, the
\* modification time c has now
Pending(k, c, t) ==
    /\ k \in 1..Len(loops)
    /\ c \in DOMAIN modified
    /\ modified[c] = t
    /\ c \in DOMAIN loops[k].last_modified
    /\ loops[k].last_modified[c] # t

\* the latest iteration of loop k has read modification time t of child c
\* and has emitted "files-changed" for it
Notified(k, c, t) ==
    /\ k \in 1..Len(loops)
    /\ c \in loops[k].emitted
    /\ c \in DOMAIN loops[k].last_modified
    /\ loops[k].last_modified[c] = t

\* C13: an iteration of a loop emits "files-changed" for a direct child of
\* tasks_dir exactly when the loop has recorded a modification time of the
\* child in an earlier iteration and the child's modification time is not
\* the recorded one; in either case the recorded time becomes the current
\* one.  So the first observation of a child, an unchanged child and a
\* removed child emit nothing, and nothing is emitted outside an iteration.
C13_TickNotifies ==
    [][\A k \in 1..MaxLoops :
          /\ Ticks(k) =>
                \A c \in Boards :
                    /\ c \in loops'[k].emitted <=>
                          /\ c \in DOMAIN modified
                          /\ c \in DOMAIN loops[k].last_modified
                          /\ loops[k].last_modified[c] # modified[c]
                    /\ c \in DOMAIN modified =>
                          /\ c \in DOMAIN loops'[k].last_modified
                          /\ loops'[k].last_modified[c] = modified[c]
                    /\ c \notin DOMAIN loops[k].last_modified => c \notin loops'[k].emitted
                    /\ c \notin DOMAIN modified => c \notin loops'[k].emitted
          /\ (k \in 1..Len(loops) /\ ~Ticks(k)) => loops'[k] = loops[k]]_vars

\* an iteration has notified of the change of one child and of nothing for
\* another child that it has recorded
C13_Witness ==
    \E k \in 1..Len(loops) : \E c \in Boards, d \in Boards :
        /\ c \in DOMAIN modified
        /\ Notified(k, c, modified[c])
        /\ d \in DOMAIN loops[k].last_modified
        /\ d \notin loops[k].emitted

\* C14: once start_file_watcher has been called the flag watching is true
\* and stays true, every loop that was started runs an iteration again and
\* again, and a change of the modification time of a child that a loop has
\* recorded is notified by that loop unless the time changes again or the
\* child goes away.
C14_WatcherNeverStops ==
    /\ [](Len(loops) >= 1 => watching)
    /\ [][watching => watching']_vars
    /\ \A k \in 1..MaxLoops, b \in {0, 1} :
          (k \in 1..Len(loops)) ~> (k \in 1..Len(loops) /\ loops[k].ticks = b)
    /\ \A k \in 1..MaxLoops, c \in Boards, t \in Times :
          Pending(k, c, t) ~>
             (Notified(k, c, t) \/ c \notin DOMAIN modified \/ modified[c] # t)

\* the watcher runs and a loop has notified of the modification time a
\* child still has
C14_Witness ==
    /\ watching
    /\ \E k \in 1..Len(loops), c \in Boards, t \in Times :
          /\ c \in DOMAIN modified /\ modified[c] = t
          /\ Notified(k, c, t)
          /\ loops[k].ticks = 0

\* start_file_watcher returns in this step
StartStep ==
    \/ last'.op = "start_file_watcher" /\ last' # last
    \/ Len(loops') # Len(loops)
    \/ watching' # watching

\* C15: every call of start_file_watcher returns Ok and spawns a loop of its
\* own with an empty map of its own, whatever the flag watching is; an
\* iteration of one loop leaves the other loops as they are and notifies of
\* every recorded child whose modification time has changed, so every loop
\* notifies of one change on its own.
C15_LoopPerCall ==
    [][/\ StartStep => (last'.ok /\ loops' = Append(loops, NewLoop))
       /\ \A j \in 1..MaxLoops :
             Ticks(j) =>
                /\ \A k \in 1..Len(loops) : k # j => loops'[k] = loops[k]
                /\ \A c \in Boards, t \in Times :
                      Pending(j, c, t) => c \in loops'[j].emitted]_vars

\* two calls, two loops, and each loop has notified of the modification
\* time a child has now
C15_Witness ==
    /\ Len(loops) = 2
    /\ \E c \in DOMAIN modified :
          \A k \in 1..2 : Notified(k, c, modified[c])

(***************************************************************************)
(* Properties of update_resource and its steps                             *)
(***************************************************************************)
\* C16: while update_resource(old, new, content) with old # new runs on an
\* existing card file, and after it, the card is at exactly one of the
\* location of old and the location of new, and holds its original content
\* or the new content.
C16_CardAtOldOrNew ==
    (moving.pc # "idle" /\ moving.new_path.some) =>
        LET old == FullPath(moving.path)
            new == SanitizeLast(FullPath(moving.new_path.v))
            held == {moving.before[old].content} \cup
                    (IF moving.content.some THEN {moving.content.v} ELSE {})
        IN (old # new /\ IsFile(moving.before, old) /\ ~Exists(moving.before, new)) =>
              /\ \/ IsFile(fs, old) /\ ~Exists(fs, new)
                 \/ IsFile(fs, new) /\ ~Exists(fs, old)
              /\ \A q \in {old, new} : IsFile(fs, q) => fs[q].content \in held

\* the number of card files of a tree
NumCards(f) == Cardinality({q \in DOMAIN f : IsFile(f, q)})

\* C18: update_resource(old, new, content) on a card file old whose target
\* new is another card file returns Ok; afterwards new holds the content
\* given, or that of old when none is given, old is gone, and the tree has
\* one card less.
C18_ReplacesTarget ==
    [][\A path \in LogicalPaths, to \in LogicalPaths :
          LET old == FullPath(path)
              new == SanitizeLast(FullPath(to))
          IN /\ ResourceStep
             /\ last'.op = "update_resource"
             /\ last'.path = path
             /\ last'.new_path = SomePath(to)
             /\ IsCardPath(path) /\ IsCardPath(to)
             /\ IsFile(fs, old)
             /\ IsFile(fs, new)
             /\ old # new
             => /\ last'.ok
                /\ IsFile(fs', new)
                /\ fs'[new].content =
                      IF last'.content.some THEN last'.content.v ELSE fs[old].content
                /\ ~Exists(fs', old)
                /\ NumCards(fs') = NumCards(fs) - 1]_vars

(***************************************************************************)
(* Properties of the listing                                               *)
(***************************************************************************)
Hidden(name) == StartsWith(name, ".")

\* C17: in a list that get_resource(B) returns no lane name and no card name
\* starts with '.', every lane is a directory directly in B, every card is
\* an entry directly in its lane whose name ends in ".md", named by the file
\* name without the suffix; and every directory directly in B that is not
\* hidden is a lane of the list, every file in it that is not hidden and
\* ends in ".md" a card of that lane.
C17_ListingMatchesTree ==
    (last.op = "get_resource" /\ last.ok) =>
        LET board == FullPath(last.path)
        IN /\ \A l \in last.value :
                /\ ~Hidden(l.name)
                /\ IsDir(fs, Append(board, l.name))
                /\ \A card \in l.files :
                      /\ ~Hidden(card.name)
                      /\ \E q \in DOMAIN fs :
                            /\ Parent(q) = Append(board, l.name)
                            /\ EndsWithMd(FileName(q))
                            /\ ~Hidden(FileName(q))
                            /\ FileName(q) = card.name \o <<".", "m", "d">>
                            /\ fs[q].content = card.content
           /\ \A d \in DOMAIN fs :
                (d # << >> /\ Parent(d) = board /\ IsDir(fs, d) /\ ~Hidden(FileName(d))) =>
                    \E l \in last.value :
                        /\ l.name = FileName(d)
                        /\ \A q \in DOMAIN fs :
                              (/\ Parent(q) = d
                               /\ IsFile(fs, q)
                               /\ EndsWithMd(FileName(q))
                               /\ ~Hidden(FileName(q))) =>
                                  \E card \in l.files :
                                      card.name \o <<".", "m", "d">> = FileName(q)

\* a listing with a card, of a board that also has a hidden entry
C17_Witness ==
    /\ last.op = "get_resource" /\ last.ok
    /\ \E l \in last.value : l.files # {}
    /\ \E q \in DOMAIN fs :
          /\ q # << >>
          /\ IsPrefix(FullPath(last.path), Parent(q))
          /\ Hidden(FileName(q))

\* a lane of the board that is not hidden holds a directory with a name the
\* predicate accepts
HasMdDirectory(board, Accepted(_)) ==
    \E lane \in DOMAIN fs, q \in DOMAIN fs :
        /\ lane # << >> /\ Parent(lane) = board
        /\ IsDir(fs, lane) /\ ~Hidden(FileName(lane))
        /\ Parent(q) = lane
        /\ IsDir(fs, q)
        /\ Accepted(FileName(q))

NotHiddenMd(name) == EndsWithMd(name) /\ ~Hidden(name)

\* C20 as stated: while a lane of board B that is not hidden holds a
\* directory whose name ends in ".md", get_resource(B) returns an error.
C20_MdDirectoryFailsBoard ==
    \A path \in ListedPaths :
        (IsDir(fs, FullPath(path)) /\ HasMdDirectory(FullPath(path), EndsWithMd)) =>
            ~get_resource(fs, path).ok

\* C20: while a lane of board B that is not hidden holds a directory whose
\* name ends in ".md" and does not start with '.', get_resource(B) returns
\* an error.
C20_VisibleMdDirectoryFailsBoard ==
    \A path \in ListedPaths :
        (IsDir(fs, FullPath(path)) /\ HasMdDirectory(FullPath(path), NotHiddenMd)) =>
            ~get_resource(fs, path).ok

\* get_resource of a board has failed and a lane holds a directory c.md
C20_Witness ==
    /\ last.op = "get_resource" /\ ~last.ok
    /\ IsDir(fs, FullPath(last.path))
    /\ HasMdDirectory(FullPath(last.path), NotHiddenMd)

(***************************************************************************)
(* The map files and the resource commands                                 *)
(***************************************************************************)
\* C19: no resource command changes tags.json or sort.json, an update of a
\* tag changes nothing of sort.json and an update of a sort value nothing
\* of tags.json; so get_tags and get_sort of every path return after a
\* rename or a deletion of a card what they returned before, and the empty
\* object for a path that no update has set.
C19_MapsKeepOldPaths ==
    /\ [](\A store \in Stores, key \in CardKeys :
             UpdatesOf(store, key) = {} => Get(store, key) = Returns(EmptyObject))
    /\ [][/\ ResourceStep => (tagsFile' = tagsFile /\ sortFile' = sortFile)
          /\ \A store \in Stores, key \in CardKeys :
                ResourceStep => GetIn(tagsFile', sortFile', store, key) = Get(store, key)
          /\ \A c \in 1..NumCalls :
                Completes(c) =>
                   /\ calls[c].store = "tags" => sortFile' = sortFile
                   /\ calls[c].store = "sort" => tagsFile' = tagsFile]_vars

\* the card whose tag is set has been renamed: the tag is still stored for
\* the old path and nothing is stored for the new one
C19_Witness ==
    /\ last.op = "update_resource" /\ last.ok
    /\ last.path = P_abc /\ last.new_path = SomePath(P_abcq)
    /\ ~Exists(fs, FullPath(P_abc))
    /\ Get("tags", P_abc) = Returns(JNum(1))
    /\ Get("tags", P_abcq) = Returns(EmptyObject)

====
